---- MODULE Spec2Model ----
(***************************************************************************)
(* Model of hospital-backend-api: staff creation and login, JWT issuance   *)
(* and validation, the AuthRequired gate and the tenant-scoped patient     *)
(* search.                                                                 *)
(*                                                                         *)
(* Strings of the program that are only compared for equality are TLA+     *)
(* strings.  Strings that are matched with SQL LIKE are sequences of       *)
(* one-character strings.  A Go error is the string of its message, "nil"  *)
(* for no error.  Time is counted in ticks of 1/TicksPerSecond second.     *)
(***************************************************************************)
EXTENDS Integers, Sequences, FiniteSets, TLC

VARIABLES staff, nextStaffID, patients, jwtKey, jwtExpiry, now, issued, pend, resp

vars == <<staff, nextStaffID, patients, jwtKey, jwtExpiry, now, issued, pend, resp>>

(***************************************************************************)
(* Bounds of the model.                                                    *)
(***************************************************************************)
\* Clock resolution: ticks per second (jwt.NumericDate keeps whole seconds).
TicksPerSecond == 2
\* time.Hour in seconds, scaled down so that expiry is reached within MaxTime.
HourSeconds == 1
\* Last tick of the clock.
MaxTime == 2
\* Largest primary key the staff sequence hands out.
MaxStaffID == 2
\* Most tokens kept by clients at once.
MaxIssued == 1

Usernames == {"alice", "bob"}
Passwords == {"pw123", "wrongpw"}
HospitalInputs == {"Hospital A", "Hospital B", "Hospital C"}
Secrets == {"s3cret"}
\* Values of JWT_EXPIRY_HOURS after config.Load, in hours.
ExpiryHours == {0, 1}
\* In-flight staff-creation requests.
Reqs == {1, 2}

(***************************************************************************)
(* database: the tenant resolver and the staff table.                      *)
(***************************************************************************)
ErrRecordNotFound == "record not found"
ErrDB == "connection refused"
ErrDuplicateKey == "duplicate key value violates unique constraint"

\* fmt.Errorf("hospital not found: %s", hospitalName), written out for the
\* unresolvable names of HospitalInputs and ResolverInputs.
HospitalNotFound(hospitalName) ==
    CASE hospitalName = "Hospital C" -> "hospital not found: Hospital C"
      [] hospitalName = "hospital a" -> "hospital not found: hospital a"
      [] hospitalName = "HOSPITAL B" -> "hospital not found: HOSPITAL B"
      [] hospitalName = "Hospital A " -> "hospital not found: Hospital A "
      [] hospitalName = " Hospital B" -> "hospital not found:  Hospital B"
      [] hospitalName = "1" -> "hospital not found: 1"
      [] hospitalName = "2" -> "hospital not found: 2"
      [] OTHER -> "hospital not found: "

\* A name with its surrounding whitespace removed and in lower case.
Normalized(hospitalName) ==
    CASE hospitalName \in {"Hospital A", "hospital a", "Hospital A "} -> "hospital a"
      [] hospitalName \in {"Hospital B", "HOSPITAL B", " Hospital B"} -> "hospital b"
      [] OTHER -> hospitalName

\* GetHospitalIDByName comparing normalized names.
GetHospitalIDByName_Normalizing(hospitalName) ==
    IF Normalized(hospitalName) = "hospital a" THEN [id |-> 1, err |-> "nil"]
    ELSE IF Normalized(hospitalName) = "hospital b" THEN [id |-> 2, err |-> "nil"]
    ELSE [id |-> 0, err |-> HospitalNotFound(hospitalName)]

\* GetHospitalIDByName returning gorm.ErrRecordNotFound for an unknown name.
GetHospitalIDByName_RecordNotFound(hospitalName) ==
    IF hospitalName = "Hospital A" THEN [id |-> 1, err |-> "nil"]
    ELSE IF hospitalName = "Hospital B" THEN [id |-> 2, err |-> "nil"]
    ELSE [id |-> 0, err |-> ErrRecordNotFound]

GetHospitalIDByName(hospitalName) ==
    IF hospitalName = "Hospital A" THEN [id |-> 1, err |-> "nil"]
    ELSE IF hospitalName = "Hospital B" THEN [id |-> 2, err |-> "nil"]
    ELSE [id |-> 0, err |-> HospitalNotFound(hospitalName)]

\* The empty string, as a password hash.
NoHash == <<>>

NoStaff ==
    [id |-> 0, username |-> "", password_hash |-> NoHash, hospital_id |-> 0,
     hospital_name |-> ""]

\* DB.Where("username = ?", username).First(&staff); dbDown: the store fails.
FindStaffByUsername(username, dbDown) ==
    IF dbDown THEN [staff |-> NoStaff, err |-> ErrDB]
    ELSE IF \E s \in staff : s.username = username
         THEN [staff |-> CHOOSE s \in staff : s.username = username, err |-> "nil"]
         ELSE [staff |-> NoStaff, err |-> ErrRecordNotFound]

\* DB.Create(staff) on a table without the unique index on username.
CreateStaff_NoUniqueIndex(table, newStaff, id) ==
    [table |-> table \cup {[newStaff EXCEPT !.id = id]},
     staff |-> [newStaff EXCEPT !.id = id], err |-> "nil"]

\* DB.Create(staff) on a table with a unique index on username: the row gets
\* the next value of the primary-key sequence, which a rejected insert
\* consumes as well.
CreateStaff(table, newStaff, id) ==
    IF \E s \in table : s.username = newStaff.username
    THEN [table |-> table, staff |-> newStaff, err |-> ErrDuplicateKey]
    ELSE [table |-> table \cup {[newStaff EXCEPT !.id = id]},
          staff |-> [newStaff EXCEPT !.id = id], err |-> "nil"]

(***************************************************************************)
(* utils: the password hasher.                                             *)
(***************************************************************************)
\* utils.HashPassword returns the hash and an error; the hasher of the
\* specification has no failure.
HashPassword(password) == [hash |-> <<"$2a$", password>>, err |-> "nil"]

CheckPasswordHash(password, hash) == hash = HashPassword(password).hash

(***************************************************************************)
(* services: the token service (golang-jwt v5, HS256).                     *)
(***************************************************************************)
HMACAlgs == {"HS256", "HS384", "HS512"}

\* time.Hour * time.Duration(hours), in ticks.
HoursToTicks(hours) == hours * HourSeconds * TicksPerSecond

\* jwt.NewNumericDate: the time truncated to whole seconds.
NewNumericDate(t) == t - (t % TicksPerSecond)

\* A token string.  wf: three base64 segments that decode to JSON; alg: the
\* header's algorithm; key: the key its signature was made with.
NoToken ==
    [wf |-> FALSE, alg |-> "", key |-> "", user_id |-> 0, username |-> "",
     hospital_id |-> 0, iat |-> 0, exp |-> 0]

NoClaims == [user_id |-> 0, username |-> "", hospital_id |-> 0, iat |-> 0, exp |-> 0]

\* jwt.NewWithClaims(jwt.SigningMethodHS256, claims).SignedString(key)
SignedString(claims, key) ==
    [wf |-> TRUE, alg |-> "HS256", key |-> key, user_id |-> claims.user_id,
     username |-> claims.username, hospital_id |-> claims.hospital_id,
     iat |-> claims.iat, exp |-> claims.exp]

ErrInvalidCredentials == "invalid username or password"
ErrInvalidHospital == "invalid hospital specified"
ErrVerifyingHospital == "error verifying hospital"
ErrHospitalMismatch == "invalid hospital for this user"
ErrDBLogin == "database error during login: connection refused"
ErrTokenExpired == "token is expired"
ErrInvalidToken == "invalid token"

\* AuthenticateStaff telling an unknown username apart from a wrong password.
AuthenticateStaff_UserNotFound(loginReq, dbDown, t, key, expiry) ==
    LET found == FindStaffByUsername(loginReq.username, dbDown)
        hosp == GetHospitalIDByName(loginReq.hospital)
        st == found.staff
        claims == [user_id |-> st.id, username |-> st.username,
                   hospital_id |-> st.hospital_id,
                   iat |-> NewNumericDate(t), exp |-> NewNumericDate(t + expiry)]
        fail(e) == [token |-> NoToken, staff |-> NoStaff, err |-> e]
    IN  IF found.err # "nil"
        THEN IF found.err = ErrRecordNotFound THEN fail("user not found")
             ELSE fail(ErrDBLogin)
        ELSE IF hosp.err # "nil"
        THEN IF hosp.err = ErrRecordNotFound THEN fail(ErrInvalidHospital)
             ELSE fail(ErrVerifyingHospital)
        ELSE IF st.hospital_id # hosp.id THEN fail(ErrHospitalMismatch)
        ELSE IF ~CheckPasswordHash(loginReq.password, st.password_hash)
        THEN fail(ErrInvalidCredentials)
        ELSE [token |-> SignedString(claims, key),
              staff |-> [st EXCEPT !.password_hash = NoHash], err |-> "nil"]

\* AuthenticateStaff returning the staff row as it was read.
AuthenticateStaff_HashKept(loginReq, dbDown, t, key, expiry) ==
    LET found == FindStaffByUsername(loginReq.username, dbDown)
        hosp == GetHospitalIDByName(loginReq.hospital)
        st == found.staff
        claims == [user_id |-> st.id, username |-> st.username,
                   hospital_id |-> st.hospital_id,
                   iat |-> NewNumericDate(t), exp |-> NewNumericDate(t + expiry)]
        fail(e) == [token |-> NoToken, staff |-> NoStaff, err |-> e]
    IN  IF found.err # "nil"
        THEN IF found.err = ErrRecordNotFound THEN fail(ErrInvalidCredentials)
             ELSE fail(ErrDBLogin)
        ELSE IF hosp.err # "nil"
        THEN IF hosp.err = ErrRecordNotFound THEN fail(ErrInvalidHospital)
             ELSE fail(ErrVerifyingHospital)
        ELSE IF st.hospital_id # hosp.id THEN fail(ErrHospitalMismatch)
        ELSE IF ~CheckPasswordHash(loginReq.password, st.password_hash)
        THEN fail(ErrInvalidCredentials)
        ELSE [token |-> SignedString(claims, key), staff |-> st, err |-> "nil"]

\* AuthenticateStaff resolving the hospital before the staff lookup.
AuthenticateStaff_HospitalFirst(loginReq, dbDown, t, key, expiry) ==
    LET found == FindStaffByUsername(loginReq.username, dbDown)
        hosp == GetHospitalIDByName(loginReq.hospital)
        st == found.staff
        claims == [user_id |-> st.id, username |-> st.username,
                   hospital_id |-> st.hospital_id,
                   iat |-> NewNumericDate(t), exp |-> NewNumericDate(t + expiry)]
        fail(e) == [token |-> NoToken, staff |-> NoStaff, err |-> e]
    IN  IF hosp.err # "nil"
        THEN IF hosp.err = ErrRecordNotFound THEN fail(ErrInvalidHospital)
             ELSE fail(ErrVerifyingHospital)
        ELSE IF found.err # "nil"
        THEN IF found.err = ErrRecordNotFound THEN fail(ErrInvalidCredentials)
             ELSE fail(ErrDBLogin)
        ELSE IF st.hospital_id # hosp.id THEN fail(ErrHospitalMismatch)
        ELSE IF ~CheckPasswordHash(loginReq.password, st.password_hash)
        THEN fail(ErrInvalidCredentials)
        ELSE [token |-> SignedString(claims, key),
              staff |-> [st EXCEPT !.password_hash = NoHash], err |-> "nil"]

\* AuthenticateStaff verifying the password before comparing the tenants.
AuthenticateStaff_PasswordFirst(loginReq, dbDown, t, key, expiry) ==
    LET found == FindStaffByUsername(loginReq.username, dbDown)
        hosp == GetHospitalIDByName(loginReq.hospital)
        st == found.staff
        claims == [user_id |-> st.id, username |-> st.username,
                   hospital_id |-> st.hospital_id,
                   iat |-> NewNumericDate(t), exp |-> NewNumericDate(t + expiry)]
        fail(e) == [token |-> NoToken, staff |-> NoStaff, err |-> e]
    IN  IF found.err # "nil"
        THEN IF found.err = ErrRecordNotFound THEN fail(ErrInvalidCredentials)
             ELSE fail(ErrDBLogin)
        ELSE IF hosp.err # "nil"
        THEN IF hosp.err = ErrRecordNotFound THEN fail(ErrInvalidHospital)
             ELSE fail(ErrVerifyingHospital)
        ELSE IF ~CheckPasswordHash(loginReq.password, st.password_hash)
        THEN fail(ErrInvalidCredentials)
        ELSE IF st.hospital_id # hosp.id THEN fail(ErrHospitalMismatch)
        ELSE [token |-> SignedString(claims, key),
              staff |-> [st EXCEPT !.password_hash = NoHash], err |-> "nil"]

AuthenticateStaff(loginReq, dbDown, t, key, expiry) ==
    LET found == FindStaffByUsername(loginReq.username, dbDown)
        hosp == GetHospitalIDByName(loginReq.hospital)
        st == found.staff
        claims == [user_id |-> st.id, username |-> st.username,
                   hospital_id |-> st.hospital_id,
                   iat |-> NewNumericDate(t), exp |-> NewNumericDate(t + expiry)]
        fail(e) == [token |-> NoToken, staff |-> NoStaff, err |-> e]
    IN  IF found.err # "nil"
        THEN IF found.err = ErrRecordNotFound THEN fail(ErrInvalidCredentials)
             ELSE fail(ErrDBLogin)
        ELSE IF hosp.err # "nil"
        THEN IF hosp.err = ErrRecordNotFound THEN fail(ErrInvalidHospital)
             ELSE fail(ErrVerifyingHospital)
        ELSE IF st.hospital_id # hosp.id THEN fail(ErrHospitalMismatch)
        ELSE IF ~CheckPasswordHash(loginReq.password, st.password_hash)
        THEN fail(ErrInvalidCredentials)
        ELSE [token |-> SignedString(claims, key),
              staff |-> [st EXCEPT !.password_hash = NoHash], err |-> "nil"]

TokenClaims(tokenStr) ==
    [user_id |-> tokenStr.user_id, username |-> tokenStr.username,
     hospital_id |-> tokenStr.hospital_id, iat |-> tokenStr.iat, exp |-> tokenStr.exp]

\* ValidateToken accepting a token at the very instant of its expiry.
ValidateToken_ExpiryInclusive(tokenStr, t, key) ==
    IF ~tokenStr.wf \/ tokenStr.alg \notin HMACAlgs \/ tokenStr.key # key
    THEN [claims |-> NoClaims, err |-> ErrInvalidToken]
    ELSE IF t > tokenStr.exp THEN [claims |-> NoClaims, err |-> ErrTokenExpired]
    ELSE [claims |-> TokenClaims(tokenStr), err |-> "nil"]

\* ValidateToken that also looks the subject up in the staff table.
ValidateToken_Revoking(tokenStr, t, key) ==
    IF ~tokenStr.wf \/ tokenStr.alg \notin HMACAlgs \/ tokenStr.key # key
    THEN [claims |-> NoClaims, err |-> ErrInvalidToken]
    ELSE IF ~(t < tokenStr.exp) THEN [claims |-> NoClaims, err |-> ErrTokenExpired]
    ELSE IF ~\E st \in staff : st.id = tokenStr.user_id
    THEN [claims |-> NoClaims, err |-> ErrInvalidToken]
    ELSE [claims |-> TokenClaims(tokenStr), err |-> "nil"]

\* ValidateToken validating the registered claims before the signature.
ValidateToken_ClaimsFirst(tokenStr, t, key) ==
    IF ~tokenStr.wf THEN [claims |-> NoClaims, err |-> ErrInvalidToken]
    ELSE IF ~(t < tokenStr.exp) THEN [claims |-> NoClaims, err |-> ErrTokenExpired]
    ELSE IF tokenStr.alg \notin HMACAlgs \/ tokenStr.key # key
    THEN [claims |-> NoClaims, err |-> ErrInvalidToken]
    ELSE [claims |-> TokenClaims(tokenStr), err |-> "nil"]

\* jwt.ParseWithClaims with the key function of ValidateToken: the segments
\* are decoded, the key function rejects a non-HMAC method, the signature is
\* verified, and only then the registered claims are validated (exp).
ValidateToken(tokenStr, t, key) ==
    LET fail(e) == [claims |-> NoClaims, err |-> e]
    IN  IF ~tokenStr.wf THEN fail(ErrInvalidToken)
        ELSE IF tokenStr.alg \notin HMACAlgs THEN fail(ErrInvalidToken)
        ELSE IF tokenStr.key # key THEN fail(ErrInvalidToken)
        ELSE IF ~(t < tokenStr.exp) THEN fail(ErrTokenExpired)
        ELSE [claims |-> TokenClaims(tokenStr), err |-> "nil"]

\* Token strings a client can present without knowing the secret.
ForgedTokens ==
    {NoToken} \cup
    {tk \in [wf : {TRUE}, alg : {"HS256", "RS256", "none"}, key : Secrets \cup {"guess"},
             user_id : {1}, username : {"alice"}, hospital_id : {2}, iat : {0},
             exp : {0, MaxTime + TicksPerSecond}] :
        \/ tk.alg = "HS256" /\ tk.key = "guess"
        \/ tk.alg = "RS256" /\ tk.key \in Secrets
        \/ tk.alg = "none" /\ tk.key = "guess" /\ tk.exp > MaxTime}

IssuedTokens == {i.token : i \in issued}

(***************************************************************************)
(* handlers: staff creation and login.                                     *)
(***************************************************************************)
NoResp == [op |-> "none"]

StaffRequests == [username : Usernames, password : Passwords, hospital : HospitalInputs]

NoRequest == [username |-> "", password |-> "", hospital |-> ""]

\* Request bodies with an empty or absent required field.
UnboundRequests ==
    {[username |-> "alice", password |-> "", hospital |-> "Hospital A"],
     [username |-> "", password |-> "pw123", hospital |-> "Hospital A"],
     [username |-> "alice", password |-> "pw123", hospital |-> ""],
     [username |-> "alice", password |-> "", hospital |-> ""]}

Idle == [pc |-> "idle", req |-> NoRequest, staff |-> NoStaff]

\* c.ShouldBindJSON(&req): the three fields are binding:"required", so each
\* empty (or absent) field adds a line to the validation error; the texts are
\* written out for every set of empty fields of the two request types.
ShouldBindJSON(typeName, req) ==
    LET empty == {f \in {"username", "password", "hospital"} : req[f] = ""}
    IN  CASE empty = {} -> "nil"
          [] typeName = "StaffCreateRequest" /\ empty = {"username", "password", "hospital"} ->
               "Key: 'StaffCreateRequest.Username' Error:Field validation for 'Username' failed on the 'required' tag\nKey: 'StaffCreateRequest.Password' Error:Field validation for 'Password' failed on the 'required' tag\nKey: 'StaffCreateRequest.Hospital' Error:Field validation for 'Hospital' failed on the 'required' tag"
          [] typeName = "StaffCreateRequest" /\ empty = {"username", "password"} ->
               "Key: 'StaffCreateRequest.Username' Error:Field validation for 'Username' failed on the 'required' tag\nKey: 'StaffCreateRequest.Password' Error:Field validation for 'Password' failed on the 'required' tag"
          [] typeName = "StaffCreateRequest" /\ empty = {"username", "hospital"} ->
               "Key: 'StaffCreateRequest.Username' Error:Field validation for 'Username' failed on the 'required' tag\nKey: 'StaffCreateRequest.Hospital' Error:Field validation for 'Hospital' failed on the 'required' tag"
          [] typeName = "StaffCreateRequest" /\ empty = {"password", "hospital"} ->
               "Key: 'StaffCreateRequest.Password' Error:Field validation for 'Password' failed on the 'required' tag\nKey: 'StaffCreateRequest.Hospital' Error:Field validation for 'Hospital' failed on the 'required' tag"
          [] typeName = "StaffCreateRequest" /\ empty = {"username"} ->
               "Key: 'StaffCreateRequest.Username' Error:Field validation for 'Username' failed on the 'required' tag"
          [] typeName = "StaffCreateRequest" /\ empty = {"password"} ->
               "Key: 'StaffCreateRequest.Password' Error:Field validation for 'Password' failed on the 'required' tag"
          [] typeName = "StaffCreateRequest" /\ empty = {"hospital"} ->
               "Key: 'StaffCreateRequest.Hospital' Error:Field validation for 'Hospital' failed on the 'required' tag"
          [] typeName = "StaffLoginRequest" /\ empty = {"username", "password", "hospital"} ->
               "Key: 'StaffLoginRequest.Username' Error:Field validation for 'Username' failed on the 'required' tag\nKey: 'StaffLoginRequest.Password' Error:Field validation for 'Password' failed on the 'required' tag\nKey: 'StaffLoginRequest.Hospital' Error:Field validation for 'Hospital' failed on the 'required' tag"
          [] typeName = "StaffLoginRequest" /\ empty = {"username", "password"} ->
               "Key: 'StaffLoginRequest.Username' Error:Field validation for 'Username' failed on the 'required' tag\nKey: 'StaffLoginRequest.Password' Error:Field validation for 'Password' failed on the 'required' tag"
          [] typeName = "StaffLoginRequest" /\ empty = {"username", "hospital"} ->
               "Key: 'StaffLoginRequest.Username' Error:Field validation for 'Username' failed on the 'required' tag\nKey: 'StaffLoginRequest.Hospital' Error:Field validation for 'Hospital' failed on the 'required' tag"
          [] typeName = "StaffLoginRequest" /\ empty = {"password", "hospital"} ->
               "Key: 'StaffLoginRequest.Password' Error:Field validation for 'Password' failed on the 'required' tag\nKey: 'StaffLoginRequest.Hospital' Error:Field validation for 'Hospital' failed on the 'required' tag"
          [] typeName = "StaffLoginRequest" /\ empty = {"username"} ->
               "Key: 'StaffLoginRequest.Username' Error:Field validation for 'Username' failed on the 'required' tag"
          [] typeName = "StaffLoginRequest" /\ empty = {"password"} ->
               "Key: 'StaffLoginRequest.Password' Error:Field validation for 'Password' failed on the 'required' tag"
          [] typeName = "StaffLoginRequest" /\ empty = {"hospital"} ->
               "Key: 'StaffLoginRequest.Hospital' Error:Field validation for 'Hospital' failed on the 'required' tag"
          [] OTHER -> "invalid request"

\* "Invalid request body: " + err.Error(), written out for the errors of
\* ShouldBindJSON.
InvalidRequestBody(err) ==
    CASE err = "Key: 'StaffCreateRequest.Username' Error:Field validation for 'Username' failed on the 'required' tag\nKey: 'StaffCreateRequest.Password' Error:Field validation for 'Password' failed on the 'required' tag\nKey: 'StaffCreateRequest.Hospital' Error:Field validation for 'Hospital' failed on the 'required' tag" ->
             "Invalid request body: Key: 'StaffCreateRequest.Username' Error:Field validation for 'Username' failed on the 'required' tag\nKey: 'StaffCreateRequest.Password' Error:Field validation for 'Password' failed on the 'required' tag\nKey: 'StaffCreateRequest.Hospital' Error:Field validation for 'Hospital' failed on the 'required' tag"
      [] err = "Key: 'StaffCreateRequest.Username' Error:Field validation for 'Username' failed on the 'required' tag\nKey: 'StaffCreateRequest.Password' Error:Field validation for 'Password' failed on the 'required' tag" ->
             "Invalid request body: Key: 'StaffCreateRequest.Username' Error:Field validation for 'Username' failed on the 'required' tag\nKey: 'StaffCreateRequest.Password' Error:Field validation for 'Password' failed on the 'required' tag"
      [] err = "Key: 'StaffCreateRequest.Username' Error:Field validation for 'Username' failed on the 'required' tag\nKey: 'StaffCreateRequest.Hospital' Error:Field validation for 'Hospital' failed on the 'required' tag" ->
             "Invalid request body: Key: 'StaffCreateRequest.Username' Error:Field validation for 'Username' failed on the 'required' tag\nKey: 'StaffCreateRequest.Hospital' Error:Field validation for 'Hospital' failed on the 'required' tag"
      [] err = "Key: 'StaffCreateRequest.Password' Error:Field validation for 'Password' failed on the 'required' tag\nKey: 'StaffCreateRequest.Hospital' Error:Field validation for 'Hospital' failed on the 'required' tag" ->
             "Invalid request body: Key: 'StaffCreateRequest.Password' Error:Field validation for 'Password' failed on the 'required' tag\nKey: 'StaffCreateRequest.Hospital' Error:Field validation for 'Hospital' failed on the 'required' tag"
      [] err = "Key: 'StaffCreateRequest.Username' Error:Field validation for 'Username' failed on the 'required' tag" ->
             "Invalid request body: Key: 'StaffCreateRequest.Username' Error:Field validation for 'Username' failed on the 'required' tag"
      [] err = "Key: 'StaffCreateRequest.Password' Error:Field validation for 'Password' failed on the 'required' tag" ->
             "Invalid request body: Key: 'StaffCreateRequest.Password' Error:Field validation for 'Password' failed on the 'required' tag"
      [] err = "Key: 'StaffCreateRequest.Hospital' Error:Field validation for 'Hospital' failed on the 'required' tag" ->
             "Invalid request body: Key: 'StaffCreateRequest.Hospital' Error:Field validation for 'Hospital' failed on the 'required' tag"
      [] err = "Key: 'StaffLoginRequest.Username' Error:Field validation for 'Username' failed on the 'required' tag\nKey: 'StaffLoginRequest.Password' Error:Field validation for 'Password' failed on the 'required' tag\nKey: 'StaffLoginRequest.Hospital' Error:Field validation for 'Hospital' failed on the 'required' tag" ->
             "Invalid request body: Key: 'StaffLoginRequest.Username' Error:Field validation for 'Username' failed on the 'required' tag\nKey: 'StaffLoginRequest.Password' Error:Field validation for 'Password' failed on the 'required' tag\nKey: 'StaffLoginRequest.Hospital' Error:Field validation for 'Hospital' failed on the 'required' tag"
      [] err = "Key: 'StaffLoginRequest.Username' Error:Field validation for 'Username' failed on the 'required' tag\nKey: 'StaffLoginRequest.Password' Error:Field validation for 'Password' failed on the 'required' tag" ->
             "Invalid request body: Key: 'StaffLoginRequest.Username' Error:Field validation for 'Username' failed on the 'required' tag\nKey: 'StaffLoginRequest.Password' Error:Field validation for 'Password' failed on the 'required' tag"
      [] err = "Key: 'StaffLoginRequest.Username' Error:Field validation for 'Username' failed on the 'required' tag\nKey: 'StaffLoginRequest.Hospital' Error:Field validation for 'Hospital' failed on the 'required' tag" ->
             "Invalid request body: Key: 'StaffLoginRequest.Username' Error:Field validation for 'Username' failed on the 'required' tag\nKey: 'StaffLoginRequest.Hospital' Error:Field validation for 'Hospital' failed on the 'required' tag"
      [] err = "Key: 'StaffLoginRequest.Password' Error:Field validation for 'Password' failed on the 'required' tag\nKey: 'StaffLoginRequest.Hospital' Error:Field validation for 'Hospital' failed on the 'required' tag" ->
             "Invalid request body: Key: 'StaffLoginRequest.Password' Error:Field validation for 'Password' failed on the 'required' tag\nKey: 'StaffLoginRequest.Hospital' Error:Field validation for 'Hospital' failed on the 'required' tag"
      [] err = "Key: 'StaffLoginRequest.Username' Error:Field validation for 'Username' failed on the 'required' tag" ->
             "Invalid request body: Key: 'StaffLoginRequest.Username' Error:Field validation for 'Username' failed on the 'required' tag"
      [] err = "Key: 'StaffLoginRequest.Password' Error:Field validation for 'Password' failed on the 'required' tag" ->
             "Invalid request body: Key: 'StaffLoginRequest.Password' Error:Field validation for 'Password' failed on the 'required' tag"
      [] err = "Key: 'StaffLoginRequest.Hospital' Error:Field validation for 'Hospital' failed on the 'required' tag" ->
             "Invalid request body: Key: 'StaffLoginRequest.Hospital' Error:Field validation for 'Hospital' failed on the 'required' tag"
      [] OTHER -> "Invalid request body: "

\* "Invalid hospital specified: " + err.Error(), written out for the errors
\* of GetHospitalIDByName.
InvalidHospitalSpecified(err) ==
    CASE err = "hospital not found: Hospital C" ->
             "Invalid hospital specified: hospital not found: Hospital C"
      [] err = "hospital not found: hospital a" ->
             "Invalid hospital specified: hospital not found: hospital a"
      [] err = "hospital not found: HOSPITAL B" ->
             "Invalid hospital specified: hospital not found: HOSPITAL B"
      [] err = "hospital not found: Hospital A " ->
             "Invalid hospital specified: hospital not found: Hospital A "
      [] err = "hospital not found:  Hospital B" ->
             "Invalid hospital specified: hospital not found:  Hospital B"
      [] err = "hospital not found: 1" ->
             "Invalid hospital specified: hospital not found: 1"
      [] err = "hospital not found: 2" ->
             "Invalid hospital specified: hospital not found: 2"
      [] OTHER -> "Invalid hospital specified: "

\* CreateStaffHandler resolving the hospital before the uniqueness lookup.
CreateStaffCheck_HospitalFirst(r, req, dbDown) ==
    LET bind == ShouldBindJSON("StaffCreateRequest", req)
        found == FindStaffByUsername(req.username, dbDown)
        hashed == HashPassword(req.password)
        hosp == GetHospitalIDByName(req.hospital)
        answer(status, e) ==
            /\ resp' = [op |-> "create", req |-> req, dbDown |-> dbDown,
                        status |-> status, error |-> e, staff |-> NoStaff]
            /\ UNCHANGED pend
    IN  /\ pend[r].pc = "idle"
        /\ IF bind # "nil" THEN answer(400, InvalidRequestBody(bind))
           ELSE IF hosp.err # "nil"
           THEN answer(400, InvalidHospitalSpecified(hosp.err))
           ELSE IF found.err = "nil" THEN answer(409, "Username already exists")
           ELSE IF found.err # ErrRecordNotFound
           THEN answer(500, "Database error checking username")
           ELSE IF hashed.err # "nil" THEN answer(500, "Failed to process password")
           ELSE /\ pend' = [pend EXCEPT ![r] =
                       [pc |-> "insert", req |-> req,
                        staff |-> [id |-> 0, username |-> req.username,
                                   password_hash |-> hashed.hash,
                                   hospital_id |-> hosp.id,
                                   hospital_name |-> req.hospital]]]
                /\ resp' = NoResp
        /\ UNCHANGED <<staff, nextStaffID, patients, jwtKey, jwtExpiry, now, issued>>

\* CreateStaffHandler dropping the error of GetHospitalIDByName.
CreateStaffCheck_HospitalErrorDropped(r, req, dbDown) ==
    LET bind == ShouldBindJSON("StaffCreateRequest", req)
        found == FindStaffByUsername(req.username, dbDown)
        hashed == HashPassword(req.password)
        hosp == GetHospitalIDByName(req.hospital)
        answer(status, e) ==
            /\ resp' = [op |-> "create", req |-> req, dbDown |-> dbDown,
                        status |-> status, error |-> e, staff |-> NoStaff]
            /\ UNCHANGED pend
    IN  /\ pend[r].pc = "idle"
        /\ IF bind # "nil" THEN answer(400, InvalidRequestBody(bind))
           ELSE IF found.err = "nil" THEN answer(409, "Username already exists")
           ELSE IF found.err # ErrRecordNotFound
           THEN answer(500, "Database error checking username")
           ELSE IF hashed.err # "nil" THEN answer(500, "Failed to process password")
           ELSE /\ pend' = [pend EXCEPT ![r] =
                       [pc |-> "insert", req |-> req,
                        staff |-> [id |-> 0, username |-> req.username,
                                   password_hash |-> hashed.hash,
                                   hospital_id |-> hosp.id,
                                   hospital_name |-> req.hospital]]]
                /\ resp' = NoResp
        /\ UNCHANGED <<staff, nextStaffID, patients, jwtKey, jwtExpiry, now, issued>>

\* CreateStaffHandler up to the insert: the binding of the request body, the
\* uniqueness lookup, the password hash and the hospital resolution.
CreateStaffCheck(r, req, dbDown) ==
    LET bind == ShouldBindJSON("StaffCreateRequest", req)
        found == FindStaffByUsername(req.username, dbDown)
        hashed == HashPassword(req.password)
        hosp == GetHospitalIDByName(req.hospital)
        answer(status, e) ==
            /\ resp' = [op |-> "create", req |-> req, dbDown |-> dbDown,
                        status |-> status, error |-> e, staff |-> NoStaff]
            /\ UNCHANGED pend
    IN  /\ pend[r].pc = "idle"
        /\ IF bind # "nil" THEN answer(400, InvalidRequestBody(bind))
           ELSE IF found.err = "nil" THEN answer(409, "Username already exists")
           ELSE IF found.err # ErrRecordNotFound
           THEN answer(500, "Database error checking username")
           ELSE IF hashed.err # "nil" THEN answer(500, "Failed to process password")
           ELSE IF hosp.err # "nil"
           THEN answer(400, InvalidHospitalSpecified(hosp.err))
           ELSE /\ pend' = [pend EXCEPT ![r] =
                       [pc |-> "insert", req |-> req,
                        staff |-> [id |-> 0, username |-> req.username,
                                   password_hash |-> hashed.hash,
                                   hospital_id |-> hosp.id,
                                   hospital_name |-> req.hospital]]]
                /\ resp' = NoResp
        /\ UNCHANGED <<staff, nextStaffID, patients, jwtKey, jwtExpiry, now, issued>>

\* CreateStaffHandler from the insert on.
CreateStaffInsert(r) ==
    LET ins == CreateStaff(staff, pend[r].staff, nextStaffID)
    IN  /\ pend[r].pc = "insert"
        /\ nextStaffID <= MaxStaffID
        /\ staff' = ins.table
        /\ nextStaffID' = nextStaffID + 1
        /\ pend' = [pend EXCEPT ![r] = Idle]
        /\ resp' = IF ins.err # "nil"
                   THEN [op |-> "create", req |-> pend[r].req, dbDown |-> FALSE,
                         status |-> 500, error |-> "Failed to create staff member",
                         staff |-> NoStaff]
                   ELSE [op |-> "create", req |-> pend[r].req, dbDown |-> FALSE,
                         status |-> 201, error |-> "nil",
                         staff |-> [ins.staff EXCEPT !.password_hash = NoHash]]
        /\ UNCHANGED <<patients, jwtKey, jwtExpiry, now, issued>>

\* A login that reads the expiry anew and stores it, as a per-request
\* InitializeAuthService would.
LoginStaffHandler_Reinitializing(req, dbDown, keep) ==
    LET bind == ShouldBindJSON("StaffLoginRequest", req)
        r == IF bind # "nil"
             THEN [token |-> NoToken, staff |-> NoStaff, err |-> InvalidRequestBody(bind)]
             ELSE AuthenticateStaff(req, dbDown, now, jwtKey, jwtExpiry)
        kept == IF r.err = "nil" /\ keep
                THEN issued \cup {[token |-> r.token, at |-> now]}
                ELSE issued
    IN  /\ keep => r.err = "nil"
        /\ Cardinality(kept) <= MaxIssued
        /\ issued' = kept
        /\ jwtExpiry' \in {HoursToTicks(h) : h \in ExpiryHours}
        /\ resp' = [op |-> "login", req |-> req, dbDown |-> dbDown,
                    status |-> IF bind # "nil" THEN 400
                               ELSE IF r.err = "nil" THEN 200 ELSE 401,
                    error |-> r.err, token |-> r.token, staff |-> r.staff]
        /\ UNCHANGED <<staff, nextStaffID, patients, jwtKey, now, pend>>

\* A login that stores a fresh hash of the password it has just verified.
LoginStaffHandler_Rehashing(req, dbDown, keep) ==
    LET bind == ShouldBindJSON("StaffLoginRequest", req)
        r == IF bind # "nil"
             THEN [token |-> NoToken, staff |-> NoStaff, err |-> InvalidRequestBody(bind)]
             ELSE AuthenticateStaff(req, dbDown, now, jwtKey, jwtExpiry)
        kept == IF r.err = "nil" /\ keep
                THEN issued \cup {[token |-> r.token, at |-> now]}
                ELSE issued
    IN  /\ keep => r.err = "nil"
        /\ Cardinality(kept) <= MaxIssued
        /\ issued' = kept
        /\ staff' = IF r.err # "nil" THEN staff
                    ELSE {IF st.username = req.username
                          THEN [st EXCEPT !.password_hash = <<"$2b$", req.password>>]
                          ELSE st : st \in staff}
        /\ resp' = [op |-> "login", req |-> req, dbDown |-> dbDown,
                    status |-> IF bind # "nil" THEN 400
                               ELSE IF r.err = "nil" THEN 200 ELSE 401,
                    error |-> r.err, token |-> r.token, staff |-> r.staff]
        /\ UNCHANGED <<nextStaffID, patients, jwtKey, jwtExpiry, now, pend>>

\* keep: the client stores the token it is handed (the model follows at most
\* MaxIssued tokens).
LoginStaffHandler(req, dbDown, keep) ==
    LET bind == ShouldBindJSON("StaffLoginRequest", req)
        r == IF bind # "nil"
             THEN [token |-> NoToken, staff |-> NoStaff, err |-> InvalidRequestBody(bind)]
             ELSE AuthenticateStaff(req, dbDown, now, jwtKey, jwtExpiry)
        kept == IF r.err = "nil" /\ keep
                THEN issued \cup {[token |-> r.token, at |-> now]}
                ELSE issued
    IN  /\ keep => r.err = "nil"
        /\ Cardinality(kept) <= MaxIssued
        /\ issued' = kept
        /\ resp' = [op |-> "login", req |-> req, dbDown |-> dbDown,
                    status |-> IF bind # "nil" THEN 400
                               ELSE IF r.err = "nil" THEN 200 ELSE 401,
                    error |-> r.err, token |-> r.token, staff |-> r.staff]
        /\ UNCHANGED <<staff, nextStaffID, patients, jwtKey, jwtExpiry, now, pend>>

\* services.ValidateToken called on a token string a client holds.
Validate(tokenStr) ==
    LET r == ValidateToken(tokenStr, now, jwtKey)
    IN  /\ resp' = [op |-> "validate", token |-> tokenStr, claims |-> r.claims,
                    error |-> r.err]
        /\ UNCHANGED <<staff, nextStaffID, patients, jwtKey, jwtExpiry, now, issued, pend>>

\* A staff row removed out of band (the tests' cleanup).
DeleteStaff(username) ==
    /\ \E s \in staff : s.username = username
    /\ staff' = {s \in staff : s.username # username}
    /\ resp' = NoResp
    /\ UNCHANGED <<nextStaffID, patients, jwtKey, jwtExpiry, now, issued, pend>>

\* The wall clock advances.
Tick ==
    /\ now < MaxTime
    /\ now' = now + 1
    /\ resp' = NoResp
    /\ UNCHANGED <<staff, nextStaffID, patients, jwtKey, jwtExpiry, issued, pend>>

\* main: config.Load, database.Connect, InitializeAuthService.
Init ==
    /\ staff = {}
    /\ nextStaffID = 1
    /\ patients = {}
    /\ jwtKey \in Secrets
    /\ jwtExpiry \in {HoursToTicks(h) : h \in ExpiryHours}
    /\ now = 0
    /\ issued = {}
    /\ pend = [r \in Reqs |-> Idle]
    /\ resp = NoResp

\* Staff-creation requests of the login scenarios.
SeedRequests == [username : {"alice"}, password : {"pw123"}, hospital : HospitalInputs]

\* Unbound requests of the login scenarios: no password, no username.
SeedUnbound == {req \in UnboundRequests : req.hospital # ""}

\* A login request during a store outage.
OutageLogin == [username |-> "alice", password |-> "pw123", hospital |-> "Hospital A"]

\* Login and token lifecycle, staff created by one request at a time.
Next ==
    \/ \E req \in SeedRequests \cup SeedUnbound, dbDown \in BOOLEAN :
          CreateStaffCheck(1, req, dbDown)
    \/ CreateStaffInsert(1)
    \/ \E req \in StaffRequests, keep \in BOOLEAN : LoginStaffHandler(req, FALSE, keep)
    \/ \E req \in SeedUnbound : LoginStaffHandler(req, FALSE, FALSE)
    \/ \E req \in {OutageLogin} \cup SeedUnbound : LoginStaffHandler(req, TRUE, FALSE)
    \/ \E tk \in IssuedTokens \cup ForgedTokens : Validate(tk)
    \/ \E u \in Usernames : DeleteStaff(u)
    \/ Tick

Spec == Init /\ [][Next]_vars

\* Staff creation by concurrent requests.
NextCreate ==
    \/ \E r \in Reqs, req \in StaffRequests \cup UnboundRequests :
          CreateStaffCheck(r, req, FALSE)
    \/ \E r \in Reqs, req \in SeedRequests \cup UnboundRequests :
          CreateStaffCheck(r, req, TRUE)
    \/ \E r \in Reqs : CreateStaffInsert(r)

SpecCreate == Init /\ [][NextCreate]_vars

\* Hospital strings handed to the resolver: the two configured names, an
\* unknown name, names in another letter case or with a space added, and the
\* identifiers of the two tenants.
ResolverInputs ==
    {"Hospital A", "Hospital B", "Hospital C", "hospital a", "HOSPITAL B",
     "Hospital A ", " Hospital B", "1", "2"}

TenantRequests == [username : Usernames, password : {"pw123"}, hospital : ResolverInputs]

\* database.GetHospitalIDByName called on its own.
Resolve(hospitalName) ==
    LET r == GetHospitalIDByName(hospitalName)
    IN  /\ resp' = [op |-> "resolve", name |-> hospitalName, id |-> r.id,
                    error |-> r.err]
        /\ UNCHANGED <<staff, nextStaffID, patients, jwtKey, jwtExpiry, now, issued, pend>>

\* Staff creation and login with every hospital string of ResolverInputs.
NextTenant ==
    \/ \E hospitalName \in ResolverInputs : Resolve(hospitalName)
    \/ \E req \in TenantRequests \cup UnboundRequests : CreateStaffCheck(1, req, FALSE)
    \/ CreateStaffInsert(1)
    \/ \E req \in TenantRequests \cup UnboundRequests : LoginStaffHandler(req, FALSE, FALSE)

SpecTenant == Init /\ [][NextTenant]_vars

(***************************************************************************)
(* database: the patient table and SearchPatients (PostgreSQL).            *)
(***************************************************************************)
\* Most criteria fields a search request of the model supplies.
MaxCriteria == 3

\* The strings of patients and criteria are sequences of characters (an
\* identifier such as N1 counts as one character); a and b stand for Thai
\* letters, c and d for Latin ones.  A time is <<>> (NULL) or
\* <<date, ticks after 00:00 UTC>>.
PatientRows ==
    { [hospital_id |-> 1, patient_hn |-> "HN0001",
       first_name_th |-> <<"a", "b">>, middle_name_th |-> <<>>, last_name_th |-> <<"b">>,
       first_name_en |-> <<"c">>, middle_name_en |-> <<>>, last_name_en |-> <<"d">>,
       date_of_birth |-> <<"1990-05-15", 0>>, national_id |-> <<"N1">>, passport_id |-> <<>>,
       phone_number |-> <<"081">>, email |-> <<"a@x">>, gender |-> "M"],
      [hospital_id |-> 2, patient_hn |-> "HN0002",
       first_name_th |-> <<"a">>, middle_name_th |-> <<"b">>, last_name_th |-> <<"a", "a">>,
       first_name_en |-> <<"d">>, middle_name_en |-> <<"c">>, last_name_en |-> <<"c", "d">>,
       date_of_birth |-> <<"1990-05-15", 0>>, national_id |-> <<"N1">>, passport_id |-> <<"P1">>,
       phone_number |-> <<"081">>, email |-> <<"a@x">>, gender |-> "F"],
      [hospital_id |-> 2, patient_hn |-> "HN0003",
       first_name_th |-> <<>>, middle_name_th |-> <<>>, last_name_th |-> <<>>,
       first_name_en |-> <<"c", "d">>, middle_name_en |-> <<>>, last_name_en |-> <<"c">>,
       date_of_birth |-> <<>>, national_id |-> <<>>, passport_id |-> <<"P1">>,
       phone_number |-> <<>>, email |-> <<>>, gender |-> "M"] }

\* PostgreSQL's s LIKE p with the default escape character: % is any run of
\* characters, _ any one character, a backslash takes the next character
\* literally.
RECURSIVE Like(_, _)
Like(s, p) ==
    IF p = <<>> THEN s = <<>>
    ELSE IF Head(p) = "%" THEN Like(s, Tail(p)) \/ (s # <<>> /\ Like(Tail(s), p))
    ELSE IF Head(p) = "_" THEN s # <<>> /\ Like(Tail(s), Tail(p))
    ELSE IF Head(p) = "\\" /\ Len(p) >= 2
    THEN s # <<>> /\ Head(s) = p[2] /\ Like(Tail(s), Tail(Tail(p)))
    ELSE s # <<>> /\ Head(s) = Head(p) /\ Like(Tail(s), Tail(p))

\* "%" + value + "%"
Contains(value) == <<"%">> \o value \o <<"%">>

ValidDates == {"1990-05-15", "2001-12-31"}

\* time.Parse("2006-01-02", value): midnight UTC of the date.
ParseDate(value) ==
    IF Len(value) = 1 /\ value[1] \in ValidDates
    THEN [time |-> <<value[1], 0>>, err |-> "nil"]
    ELSE [time |-> <<>>, err |-> "parsing time"]

\* A field counting as supplied whenever its pointer is not nil.
Supplied_NilOnly(f) == f # <<>>

\* A criteria field is <<>> when absent (a nil pointer) and <<value>> when
\* supplied.
Supplied(f) == f # <<>> /\ f[1] # <<>>

\* The condition one bilingual name pair adds to the query.
NameCondition(r, th, en, colTH, colEN) ==
    IF Supplied(th) /\ Supplied(en)
    THEN Like(r[colTH], Contains(th[1])) \/ Like(r[colEN], Contains(en[1]))
    ELSE IF Supplied(th) THEN Like(r[colTH], Contains(th[1]))
    ELSE IF Supplied(en) THEN Like(r[colEN], Contains(en[1]))
    ELSE TRUE

\* The conditions of the query when a date_of_birth that does not parse is
\* compared as the zero time, which no record has.
CriteriaHold_BadDateMatchesNone(r, query) ==
    /\ Supplied(query.national_id) => r.national_id = query.national_id[1]
    /\ Supplied(query.passport_id) => r.passport_id = query.passport_id[1]
    /\ NameCondition(r, query.first_name_th, query.first_name_en,
                     "first_name_th", "first_name_en")
    /\ NameCondition(r, query.middle_name_th, query.middle_name_en,
                     "middle_name_th", "middle_name_en")
    /\ NameCondition(r, query.last_name_th, query.last_name_en,
                     "last_name_th", "last_name_en")
    /\ Supplied(query.date_of_birth)
          => /\ ParseDate(query.date_of_birth[1]).err = "nil"
             /\ r.date_of_birth = ParseDate(query.date_of_birth[1]).time
    /\ Supplied(query.phone_number) => r.phone_number = query.phone_number[1]
    /\ Supplied(query.email) => r.email = query.email[1]

\* The conditions the criteria add to the query, each ANDed, an OR pair in
\* parentheses.
CriteriaHold(r, query) ==
    /\ Supplied(query.national_id) => r.national_id = query.national_id[1]
    /\ Supplied(query.passport_id) => r.passport_id = query.passport_id[1]
    /\ NameCondition(r, query.first_name_th, query.first_name_en,
                     "first_name_th", "first_name_en")
    /\ NameCondition(r, query.middle_name_th, query.middle_name_en,
                     "middle_name_th", "middle_name_en")
    /\ NameCondition(r, query.last_name_th, query.last_name_en,
                     "last_name_th", "last_name_en")
    /\ (Supplied(query.date_of_birth) /\ ParseDate(query.date_of_birth[1]).err = "nil")
          => r.date_of_birth = ParseDate(query.date_of_birth[1]).time
    /\ Supplied(query.phone_number) => r.phone_number = query.phone_number[1]
    /\ Supplied(query.email) => r.email = query.email[1]

\* SearchPatients with the first-name OR pair added without parentheses:
\* hospital_id = ? AND ... first_name_th LIKE ? OR first_name_en LIKE ? AND ...
SearchPatients_UngroupedOr(query, hospitalID, table, dbDown) ==
    IF dbDown THEN [patients |-> {}, err |-> ErrDB]
    ELSE IF Supplied(query.first_name_th) /\ Supplied(query.first_name_en)
    THEN [patients |->
            {r \in table :
                \/ /\ r.hospital_id = hospitalID
                   /\ Supplied(query.national_id) => r.national_id = query.national_id[1]
                   /\ Supplied(query.passport_id) => r.passport_id = query.passport_id[1]
                   /\ Like(r.first_name_th, Contains(query.first_name_th[1]))
                \/ /\ Like(r.first_name_en, Contains(query.first_name_en[1]))
                   /\ CriteriaHold(r, [query EXCEPT !.first_name_th = <<>>])},
          err |-> "nil"]
    ELSE [patients |-> {r \in table : r.hospital_id = hospitalID /\ CriteriaHold(r, query)},
          err |-> "nil"]

\* SearchPatients refusing a search without criteria.
SearchPatients_CriteriaRequired(query, hospitalID, table, dbDown) ==
    IF dbDown THEN [patients |-> {}, err |-> ErrDB]
    ELSE IF \A f \in DOMAIN query : ~Supplied(query[f])
    THEN [patients |-> {}, err |-> "nil"]
    ELSE [patients |-> {r \in table : r.hospital_id = hospitalID /\ CriteriaHold(r, query)},
          err |-> "nil"]

SearchPatients(query, hospitalID, table, dbDown) ==
    IF dbDown THEN [patients |-> {}, err |-> ErrDB]
    ELSE [patients |-> {r \in table : r.hospital_id = hospitalID /\ CriteriaHold(r, query)},
          err |-> "nil"]

CriteriaFields ==
    {"national_id", "passport_id", "first_name_th", "first_name_en", "middle_name_th",
     "middle_name_en", "last_name_th", "last_name_en", "date_of_birth", "phone_number",
     "email"}

\* Values a client supplies for a criteria field.
FieldValues(f) ==
    IF f \in {"first_name_th", "middle_name_th", "last_name_th"}
    THEN {<<>>, <<"a">>, <<"_">>}
    ELSE IF f \in {"first_name_en", "middle_name_en", "last_name_en"}
    THEN {<<>>, <<"c">>, <<"x">>}
    ELSE IF f = "national_id" THEN {<<>>, <<"N1">>}
    ELSE IF f = "passport_id" THEN {<<>>, <<"P1">>}
    ELSE IF f = "date_of_birth" THEN {<<>>, <<"1990-05-15">>, <<"15/05/1990">>}
    ELSE IF f = "phone_number" THEN {<<>>, <<"081">>}
    ELSE {<<>>, <<"a@x">>}

AllFieldValues == UNION {FieldValues(f) : f \in CriteriaFields}

NoCriteria == [f \in CriteriaFields |-> <<>>]

\* The criteria with at most MaxCriteria fields supplied.
Queries ==
    UNION {
        { [f \in CriteriaFields |-> IF f \in F THEN <<v[f]>> ELSE <<>>] :
             v \in {w \in [F -> AllFieldValues] : \A f \in F : w[f] \in FieldValues(f)} } :
        F \in {G \in SUBSET CriteriaFields : Cardinality(G) <= MaxCriteria} }

TenantIDs == {1, 2, 3}

\* database.SearchPatients called with criteria and a tenant.
Search(query, hospitalID, dbDown) ==
    LET r == SearchPatients(query, hospitalID, patients, dbDown)
    IN  /\ resp' = [op |-> "query", query |-> query, tenant |-> hospitalID,
                    dbDown |-> dbDown, patients |-> r.patients, error |-> r.err]
        /\ UNCHANGED <<staff, nextStaffID, patients, jwtKey, jwtExpiry, now, issued, pend>>

\* A patient table seeded out of band.
InitQuery ==
    /\ staff = {}
    /\ nextStaffID = 1
    /\ patients \in SUBSET PatientRows
    /\ jwtKey \in Secrets
    /\ jwtExpiry = HoursToTicks(1)
    /\ now = 0
    /\ issued = {}
    /\ pend = [r \in Reqs |-> Idle]
    /\ resp = NoResp

\* One call on the seeded table.
NextQuery ==
    /\ resp = NoResp
    /\ \E query \in Queries, hospitalID \in TenantIDs, dbDown \in BOOLEAN :
          Search(query, hospitalID, dbDown)

SpecQuery == InitQuery /\ [][NextQuery]_vars

\* database.CreatePatient: DB.Create(patient).  AutoMigrate builds the unique
\* index idx_hospital_hn from the one field tagged with it, patient_hn;
\* hospital_id has an index of its own.
CreatePatient(table, patient) ==
    IF \E r \in table : r.patient_hn = patient.patient_hn
    THEN [table |-> table, err |-> ErrDuplicateKey]
    ELSE [table |-> table \cup {patient}, err |-> "nil"]

\* Record numbers and tenants of the patients inserted.
RecordNumbers == {"HN0001", "HN0002", "HN0003"}

NewPatients ==
    {[r EXCEPT !.hospital_id = h, !.patient_hn = hn] :
        r \in PatientRows, h \in {1, 2}, hn \in RecordNumbers}

\* A patient inserted out of band (seeding).
InsertPatient(patient) ==
    LET ins == CreatePatient(patients, patient)
    IN  /\ patients' = ins.table
        /\ resp' = [op |-> "createPatient", patient |-> patient, before |-> patients,
                    error |-> ins.err]
        /\ UNCHANGED <<staff, nextStaffID, jwtKey, jwtExpiry, now, issued, pend>>

\* Patients inserted one after another into the empty table.
NextPatient == \E patient \in NewPatients : InsertPatient(patient)

SpecPatient == Init /\ [][NextPatient]_vars

(***************************************************************************)
(* middleware and handlers: GET /api/v1/patient/search.                    *)
(***************************************************************************)
\* An Authorization header: strings.Split(header, " ") is <<scheme>> \o rest;
\* the empty header splits into the one part "".
NoHeader == [scheme |-> "", rest |-> <<>>]

ToLower(str) ==
    IF str \in {"Bearer", "BEARER", "bearer"} THEN "bearer"
    ELSE IF str \in {"Basic", "basic"} THEN "basic"
    ELSE str

NoContext == [exists |-> FALSE, claims |-> NoClaims]

\* AuthRequired that goes on to the next handler after a failed validation.
AuthRequired_NoAbort(header, t, key) ==
    IF header = NoHeader
    THEN [aborted |-> TRUE, status |-> 401, error |-> "Authorization header required",
          ctx |-> NoContext]
    ELSE IF 1 + Len(header.rest) # 2 \/ ToLower(header.scheme) # "bearer"
    THEN [aborted |-> TRUE, status |-> 401,
          error |-> "Invalid authorization header format", ctx |-> NoContext]
    ELSE IF ValidateToken(header.rest[1], t, key).err # "nil"
    THEN [aborted |-> FALSE, status |-> 401,
          error |-> ValidateToken(header.rest[1], t, key).err, ctx |-> NoContext]
    ELSE [aborted |-> FALSE, status |-> 0, error |-> "nil",
          ctx |-> [exists |-> TRUE,
                   claims |-> ValidateToken(header.rest[1], t, key).claims]]

\* AuthRequired: aborted: c.AbortWithStatusJSON was called; ctx: the claims
\* stored under ContextKeyClaims.
AuthRequired(header, t, key) ==
    IF header = NoHeader
    THEN [aborted |-> TRUE, status |-> 401, error |-> "Authorization header required",
          ctx |-> NoContext]
    ELSE IF 1 + Len(header.rest) # 2 \/ ToLower(header.scheme) # "bearer"
    THEN [aborted |-> TRUE, status |-> 401,
          error |-> "Invalid authorization header format", ctx |-> NoContext]
    ELSE IF ValidateToken(header.rest[1], t, key).err # "nil"
    THEN [aborted |-> TRUE, status |-> 401,
          error |-> ValidateToken(header.rest[1], t, key).err, ctx |-> NoContext]
    ELSE [aborted |-> FALSE, status |-> 0, error |-> "nil",
          ctx |-> [exists |-> TRUE,
                   claims |-> ValidateToken(header.rest[1], t, key).claims]]

\* The URL query of a search request: the criteria parameters and a
\* hospital_id parameter, each <<>> when not in the URL.
\* c.ShouldBindQuery(&searchQuery) keeps the parameters PatientSearchQuery
\* has a form tag for.
BindQuery(params) == [f \in CriteriaFields |-> params[f]]

\* strconv.ParseUint of a hospital_id parameter.
ParseHospitalID(value) ==
    IF value = <<"1">> THEN 1 ELSE IF value = <<"2">> THEN 2 ELSE 0

\* SearchPatientHandler taking the tenant from the hospital_id parameter when
\* the URL has one.
SearchPatientHandler_TenantFromQuery(ctx, params, table, dbDown) ==
    LET tenant == IF params["hospital_id"] # <<>>
                  THEN ParseHospitalID(params["hospital_id"])
                  ELSE ctx.claims.hospital_id
        found == SearchPatients(BindQuery(params), tenant, table, dbDown)
    IN  IF ~ctx.exists
        THEN [status |-> 401, error |-> "Authentication required (claims not found)",
              body |-> {}, queried |-> FALSE, tenant |-> 0]
        ELSE IF found.err # "nil"
        THEN [status |-> 500, error |-> "Database error during patient search",
              body |-> {}, queried |-> TRUE, tenant |-> tenant]
        ELSE [status |-> 200, error |-> "nil", body |-> found.patients,
              queried |-> TRUE, tenant |-> tenant]

\* SearchPatientHandler: queried: database.SearchPatients was called, with
\* tenant as its hospital ID.
\* SearchPatientHandler answering an empty result as not found.
SearchPatientHandler_NotFoundOnEmpty(ctx, params, table, dbDown) ==
    LET staffHospitalID == ctx.claims.hospital_id
        found == SearchPatients(BindQuery(params), staffHospitalID, table, dbDown)
    IN  IF ~ctx.exists
        THEN [status |-> 401, error |-> "Authentication required (claims not found)",
              body |-> {}, queried |-> FALSE, tenant |-> 0]
        ELSE IF found.err # "nil"
        THEN [status |-> 500, error |-> "Database error during patient search",
              body |-> {}, queried |-> TRUE, tenant |-> staffHospitalID]
        ELSE IF found.patients = {}
        THEN [status |-> 404, error |-> "No patients found",
              body |-> {}, queried |-> TRUE, tenant |-> staffHospitalID]
        ELSE [status |-> 200, error |-> "nil", body |-> found.patients,
              queried |-> TRUE, tenant |-> staffHospitalID]

SearchPatientHandler(ctx, params, table, dbDown) ==
    LET staffHospitalID == ctx.claims.hospital_id
        found == SearchPatients(BindQuery(params), staffHospitalID, table, dbDown)
    IN  IF ~ctx.exists
        THEN [status |-> 401, error |-> "Authentication required (claims not found)",
              body |-> {}, queried |-> FALSE, tenant |-> 0]
        ELSE IF found.err # "nil"
        THEN [status |-> 500, error |-> "Database error during patient search",
              body |-> {}, queried |-> TRUE, tenant |-> staffHospitalID]
        ELSE [status |-> 200, error |-> "nil", body |-> found.patients,
              queried |-> TRUE, tenant |-> staffHospitalID]

\* The route patientGroup.GET("/search") behind patientGroup.Use(AuthRequired()).
PatientSearchRoute(header, params, t, key, table, dbDown) ==
    LET gate == AuthRequired(header, t, key)
        out == SearchPatientHandler(gate.ctx, params, table, dbDown)
    IN  IF gate.aborted
        THEN [status |-> gate.status, error |-> gate.error, body |-> {},
              handler |-> FALSE, queried |-> FALSE, tenant |-> 0]
        ELSE [status |-> out.status, error |-> out.error, body |-> out.body,
              handler |-> TRUE, queried |-> out.queried, tenant |-> out.tenant]

SearchPatientRequest(header, params, dbDown) ==
    LET r == PatientSearchRoute(header, params, now, jwtKey, patients, dbDown)
    IN  /\ resp' = [op |-> "search", header |-> header, params |-> params,
                    dbDown |-> dbDown, status |-> r.status, error |-> r.error,
                    body |-> r.body, handler |-> r.handler, queried |-> r.queried,
                    tenant |-> r.tenant]
        /\ UNCHANGED <<staff, nextStaffID, patients, jwtKey, jwtExpiry, now, issued, pend>>

\* Token strings presented to the search route besides the issued ones:
\* garbage, an unsigned token and a token signed with a guessed key.
RouteForgedTokens ==
    {NoToken} \cup
    {tk \in ForgedTokens :
        /\ tk.wf /\ tk.exp > MaxTime
        /\ (tk.alg = "none" /\ tk.key = "guess") \/ (tk.alg = "HS256" /\ tk.key = "guess")}

RouteHeaders ==
    {NoHeader, [scheme |-> "Bearer", rest |-> <<>>]}
    \cup {[scheme |-> "Bearer", rest |-> <<tk>>] : tk \in IssuedTokens \cup RouteForgedTokens}
    \cup {[scheme |-> sch, rest |-> <<tk>>] : sch \in {"bearer", "Basic"}, tk \in IssuedTokens}
    \cup {[scheme |-> "Bearer", rest |-> <<NoToken, NoToken>>]}

ParamNames == CriteriaFields \cup {"hospital_id"}

RouteCriteria ==
    {NoCriteria,
     [NoCriteria EXCEPT !["national_id"] = <<<<"N1">>>>],
     [NoCriteria EXCEPT !["passport_id"] = <<<<"P1">>>>],
     [NoCriteria EXCEPT !["first_name_th"] = <<<<"_">>>>, !["first_name_en"] = <<<<"x">>>>]}

RouteParams ==
    {[n \in ParamNames |-> IF n = "hospital_id" THEN h ELSE q[n]] :
        q \in RouteCriteria, h \in {<<>>, <<"2">>}}

\* Logins of the staff seeded for the search scenarios.
RouteLogins ==
    {[username |-> "alice", password |-> "pw123", hospital |-> "Hospital A"],
     [username |-> "bob", password |-> "pw123", hospital |-> "Hospital B"]}

SeededStaff ==
    {[id |-> 1, username |-> "alice", password_hash |-> HashPassword("pw123").hash,
      hospital_id |-> 1, hospital_name |-> "Hospital A"],
     [id |-> 2, username |-> "bob", password_hash |-> HashPassword("pw123").hash,
      hospital_id |-> 2, hospital_name |-> "Hospital B"]}

\* A database holding staff of both hospitals and the seeded patients.
InitSearch ==
    /\ staff = SeededStaff
    /\ nextStaffID = 3
    /\ patients = PatientRows
    /\ jwtKey \in Secrets
    /\ jwtExpiry = HoursToTicks(1)
    /\ now = 0
    /\ issued = {}
    /\ pend = [r \in Reqs |-> Idle]
    /\ resp = NoResp

NextSearch ==
    \/ \E req \in RouteLogins : LoginStaffHandler(req, FALSE, TRUE)
    \/ \E header \in RouteHeaders, params \in RouteParams, dbDown \in BOOLEAN :
          SearchPatientRequest(header, params, dbDown)
    \/ Tick

SpecSearch == InitSearch /\ [][NextSearch]_vars

\* Staff-creation requests of the whole-service scenarios.
FrameCreates ==
    [username : Usernames, password : {"pw123"}, hospital : {"Hospital A", "Hospital B"}]

\* Search requests of the whole-service scenarios: no header or an issued
\* token, no criteria or a national identifier.
FrameHeaders ==
    {NoHeader} \cup {[scheme |-> "Bearer", rest |-> <<tk>>] : tk \in IssuedTokens}

FrameParams == {p \in RouteParams : p.hospital_id = <<>> /\ p.passport_id = <<>>
                                     /\ p.first_name_th = <<>>}

\* The service started on an empty staff table and the seeded patients.
InitFrame ==
    /\ staff = {}
    /\ nextStaffID = 1
    /\ patients = PatientRows
    /\ jwtKey \in Secrets
    /\ jwtExpiry = HoursToTicks(1)
    /\ now = 0
    /\ issued = {}
    /\ pend = [r \in Reqs |-> Idle]
    /\ resp = NoResp

\* Every route of SetupRouter and the token validation, with the store up.
NextFrame ==
    \/ \E req \in FrameCreates \cup UnboundRequests : CreateStaffCheck(1, req, FALSE)
    \/ CreateStaffInsert(1)
    \/ \E req \in StaffRequests, keep \in BOOLEAN : LoginStaffHandler(req, FALSE, keep)
    \/ \E req \in UnboundRequests : LoginStaffHandler(req, FALSE, FALSE)
    \/ \E tk \in IssuedTokens \cup RouteForgedTokens : Validate(tk)
    \/ \E header \in FrameHeaders, params \in FrameParams :
          SearchPatientRequest(header, params, FALSE)
    \/ Tick

SpecFrame == InitFrame /\ [][NextFrame]_vars

(***************************************************************************)
(* Properties of login and of the token service.                           *)
(***************************************************************************)
\* The last request was a login whose body was bound and whose staff lookup
\* reached the store.
LoginAnswered ==
    /\ resp.op = "login" /\ ~resp.dbDown
    /\ ShouldBindJSON("StaffLoginRequest", resp.req) = "nil"

\* The staff row the last login named, if any.
LoginStaffRows == {s \in staff : LoginAnswered /\ s.username = resp.req.username}

HospitalMatches(s) ==
    /\ GetHospitalIDByName(resp.req.hospital).err = "nil"
    /\ GetHospitalIDByName(resp.req.hospital).id = s.hospital_id

PasswordMatches(s) == CheckPasswordHash(resp.req.password, s.password_hash)

\* C2: a login with an existing username, the staff's own hospital and the
\* right password returns a token that ValidateToken accepts at once, with
\* the staff's tenant as hospital ID.
C2_ValidLoginYieldsValidToken ==
    \A s \in LoginStaffRows :
        (HospitalMatches(s) /\ PasswordMatches(s)) =>
            /\ resp.error = "nil"
            /\ ValidateToken(resp.token, now, jwtKey).err = "nil"
            /\ ValidateToken(resp.token, now, jwtKey).claims.hospital_id = s.hospital_id

\* The right credentials were answered with a token that is expired at the
\* instant of the answer.
C2_Witness ==
    /\ resp.op = "login" /\ resp.status = 200
    /\ \E s \in LoginStaffRows : HospitalMatches(s) /\ PasswordMatches(s)
    /\ ValidateToken(resp.token, now, jwtKey).err = "token is expired"

\* C3 as stated: an unknown username or a wrong password always yields
\* 'invalid username or password'.
C3_UnknownOrWrongPasswordGeneric ==
    (LoginAnswered /\ (LoginStaffRows = {} \/ \E s \in LoginStaffRows : ~PasswordMatches(s)))
        => resp.error = "invalid username or password"

\* C3 amended: an unknown username, or a wrong password for a staff member of
\* the named hospital, yields the same 401 'invalid username or password'
\* answer without a token.
C3_GenericCredentialError ==
    (LoginAnswered /\
        (LoginStaffRows = {}
            \/ \E s \in LoginStaffRows : HospitalMatches(s) /\ ~PasswordMatches(s)))
        => /\ resp.status = 401
           /\ resp.error = "invalid username or password"
           /\ resp.token = NoToken
           /\ resp.staff = NoStaff

C3_Witness ==
    /\ LoginAnswered
    /\ \E s \in LoginStaffRows : HospitalMatches(s) /\ ~PasswordMatches(s)
    /\ resp.error = "invalid username or password"

\* C6: validating a token right after it was issued succeeds and returns the
\* user ID, username and hospital ID of the staff it was issued for.
C6_IssueValidateRoundTrip ==
    (resp.op = "login" /\ resp.status = 200) =>
        /\ ValidateToken(resp.token, now, jwtKey).err = "nil"
        /\ \A s \in LoginStaffRows :
              LET c == ValidateToken(resp.token, now, jwtKey).claims
              IN  /\ c.user_id = s.id
                  /\ c.username = s.username
                  /\ c.hospital_id = s.hospital_id

\* A token was issued with expires-at equal to issued-at and yields no claims.
C6_Witness ==
    /\ resp.op = "login" /\ resp.token # NoToken
    /\ resp.token.exp = resp.token.iat
    /\ ValidateToken(resp.token, now, jwtKey).claims = NoClaims

\* C7: validating an issued token at or after issue time + expiry fails with
\* 'token is expired'.
C7_ExpiredAfterExpiry ==
    \A i \in issued :
        (resp.op = "validate" /\ resp.token = i.token /\ now >= i.at + jwtExpiry)
            => resp.error = "token is expired" /\ resp.claims = NoClaims

C7_Witness ==
    \E i \in issued :
        /\ resp.op = "validate" /\ resp.token = i.token
        /\ jwtExpiry > 0
        /\ now >= i.at + jwtExpiry
        /\ resp.error = "token is expired"

\* C8: an issued token validates at every time before its expires-at whatever
\* happened since (logins, staff creation, removal of its staff row), and once
\* it fails as expired it never validates again.
C8_TokenLifecycleLinear ==
    /\ [](\A i \in issued :
            now < i.token.exp => ValidateToken(i.token, now, jwtKey).err = "nil")
    /\ [][\A i \in issued :
            ValidateToken(i.token, now, jwtKey).err = "token is expired"
                => ValidateToken(i.token, now', jwtKey').err = "token is expired"]_vars

\* The staff row of a token still within its validity was removed, and the
\* token was validated.
C8_Witness ==
    \E i \in issued :
        /\ now < i.token.exp /\ now > i.at
        /\ ~\E s \in staff : s.id = i.token.user_id
        /\ resp.op = "validate" /\ resp.token = i.token /\ resp.error = "nil"

Verifies(tokenStr) == tokenStr.wf /\ tokenStr.alg \in HMACAlgs /\ tokenStr.key = jwtKey

\* C9: ValidateToken returns claims only for a token signed with the secret
\* under an HMAC algorithm; any other token gets no claims and 'invalid
\* token', expired or not.
C9_OnlyVerifiedTokensYieldClaims ==
    resp.op = "validate" =>
        /\ resp.error = "nil" => Verifies(resp.token)
        /\ ~Verifies(resp.token) =>
              resp.claims = NoClaims /\ resp.error = "invalid token"

\* A token with a non-HMAC algorithm or a bad signature, past its expiry.
C9_Witness ==
    /\ resp.op = "validate"
    /\ resp.token.wf /\ ~Verifies(resp.token)
    /\ now >= resp.token.exp
    /\ resp.error = "invalid token"

\* C14: the staff view of every creation and login answer has an empty
\* password hash, and the view of a successful answer is the stored row but
\* for its hash.
C14_NoPasswordHashLeaves ==
    resp.op \in {"create", "login"} =>
        /\ resp.staff.password_hash = NoHash
        /\ resp.status \in {200, 201} =>
              \E s \in staff : resp.staff = [s EXCEPT !.password_hash = NoHash]

\* A login was answered with the view of a staff row whose stored hash is
\* not empty.
C14_Witness ==
    /\ resp.op = "login" /\ resp.status = 200
    /\ \E s \in staff :
          /\ s.id = resp.staff.id
          /\ s.password_hash = HashPassword(resp.req.password).hash
          /\ resp.staff.password_hash = NoHash

\* The error the checks of a login yield when they run in the order lookup,
\* hospital resolution, tenant comparison, password.
FirstFailingCheck ==
    IF LoginStaffRows = {} THEN "invalid username or password"
    ELSE LET s == CHOOSE x \in LoginStaffRows : TRUE
         IN  IF GetHospitalIDByName(resp.req.hospital).err # "nil"
             THEN "error verifying hospital"
             ELSE IF ~HospitalMatches(s) THEN "invalid hospital for this user"
             ELSE IF ~PasswordMatches(s) THEN "invalid username or password"
             ELSE "nil"

\* C15: the error of a login is that of the first failing check in the order
\* lookup, hospital resolution, tenant comparison, password, and a failed
\* login carries neither token nor staff.
C15_FirstFailingCheckDecides ==
    LoginAnswered =>
        /\ resp.error = FirstFailingCheck
        /\ resp.error # "nil" =>
              resp.status = 401 /\ resp.token = NoToken /\ resp.staff = NoStaff

\* An unknown username with an unresolvable hospital got the credential
\* error.
C15_Witness ==
    /\ LoginAnswered /\ LoginStaffRows = {}
    /\ GetHospitalIDByName(resp.req.hospital).err # "nil"
    /\ resp.error = "invalid username or password"

\* The last login named a staff row and a hospital that resolves to another
\* tenant.
TenantMismatch ==
    /\ LoginAnswered
    /\ \E s \in LoginStaffRows :
          /\ GetHospitalIDByName(resp.req.hospital).err = "nil"
          /\ GetHospitalIDByName(resp.req.hospital).id # s.hospital_id

\* C16: a login whose hospital resolves to another tenant than the staff's
\* gets no token and 'invalid hospital for this user', and the same answer
\* with any other password.
C16_TenantMismatchWhateverPassword ==
    TenantMismatch =>
        /\ resp.status = 401 /\ resp.error = "invalid hospital for this user"
        /\ resp.token = NoToken /\ resp.staff = NoStaff
        /\ \A p \in Passwords :
              LET other == AuthenticateStaff([resp.req EXCEPT !.password = p], FALSE,
                                             now, jwtKey, jwtExpiry)
              IN  other.err = resp.error /\ other.token = resp.token
                  /\ other.staff = resp.staff

\* The mismatch was answered for the right password.
C16_Witness ==
    /\ TenantMismatch
    /\ \E s \in LoginStaffRows : PasswordMatches(s)
    /\ resp.error = "invalid hospital for this user"

\* C17: a login that names a staff row and a hospital that does not resolve
\* is answered 401 'error verifying hospital' without a token, whatever the
\* password.
C17_UnresolvableHospitalUnauthorized ==
    (LoginAnswered /\ LoginStaffRows # {}
        /\ GetHospitalIDByName(resp.req.hospital).id = 0) =>
            /\ resp.status = 401 /\ resp.error = "error verifying hospital"
            /\ resp.token = NoToken /\ resp.staff = NoStaff

\* The right password with an unresolvable hospital.
C17_Witness ==
    /\ LoginAnswered /\ resp.req.hospital = "Hospital C"
    /\ \E s \in LoginStaffRows : PasswordMatches(s)
    /\ resp.status = 401 /\ resp.error = "error verifying hospital"

\* The texts that carry the store's own error text.
StoreErrorTexts == {ErrDB, ErrDBLogin}

\* The last request made a store lookup that failed: a login or creation
\* whose body was bound, or a search that got past the gate.
LookupFailed ==
    /\ resp.op \in {"login", "create", "search"}
    /\ resp.dbDown
    /\ resp.op = "search" => resp.queried
    /\ resp.op = "login" => ShouldBindJSON("StaffLoginRequest", resp.req) = "nil"
    /\ resp.op = "create" => ShouldBindJSON("StaffCreateRequest", resp.req) = "nil"

\* C22: a login, creation or search whose store lookup fails is answered with
\* a generic internal error (500) that carries none of the store's error text.
C22_StoreFailureGeneric ==
    LookupFailed => resp.status = 500 /\ resp.error \notin StoreErrorTexts

\* A login during a store outage answered as an authentication failure that
\* carries the store's error text.
C22_Witness ==
    /\ resp.op = "login" /\ resp.dbDown
    /\ resp.status = 401 /\ resp.error = ErrDBLogin

\* C28: no step changes the signing secret or the expiry interval, and every
\* token issued was signed with that secret and expires that interval after
\* its issue.
C28_TokenConfigFixed ==
    /\ [](\A i \in issued :
            /\ i.token.key = jwtKey
            /\ i.token.exp = NewNumericDate(i.at + jwtExpiry))
    /\ [][jwtKey' = jwtKey /\ jwtExpiry' = jwtExpiry]_vars

\* A token issued at a later time than the start, still held, under a
\* positive expiry interval.
C28_Witness ==
    /\ jwtExpiry > 0
    /\ \E i \in issued : i.at > 0 /\ i.token.key = jwtKey
    /\ resp.op = "login" /\ resp.status = 200

\* C29: every issued token expires strictly later than it was issued.
C29_ExpiryAfterIssue ==
    \A i \in issued : i.token.exp > i.token.iat

\* A token issued under JWT_EXPIRY_HOURS = 0: it expires when it is issued.
C29_Witness ==
    /\ jwtExpiry = 0
    /\ \E i \in issued : i.token.exp = i.token.iat

(***************************************************************************)
(* Properties of staff creation.                                           *)
(***************************************************************************)
\* C10: no two staff rows have the same username.
C10_UsernameUnique ==
    \A s1, s2 \in staff : s1.username = s2.username => s1 = s2

\* Two requests for one username and different hospitals both passed the
\* lookup; the second insert was rejected.
C10_Witness ==
    /\ resp.op = "create" /\ resp.status = 500
    /\ resp.error = "Failed to create staff member"
    /\ \E s \in staff :
          s.username = resp.req.username /\ s.hospital_name # resp.req.hospital

\* The last request was a staff creation with a bound body that the store
\* answered and that did not end with a new row, while a row with its
\* username exists.
CreateLostToTakenUsername ==
    /\ resp.op = "create" /\ ~resp.dbDown /\ resp.status # 201
    /\ ShouldBindJSON("StaffCreateRequest", resp.req) = "nil"
    /\ \E s \in staff : s.username = resp.req.username

\* C11: of concurrent creations for one username at most one persists a row,
\* and every request that loses because the username is taken is answered
\* 409 'Username already exists', also when both passed the lookup before
\* either inserted.
C11_ConcurrentLoserGetsConflict ==
    /\ \A s1, s2 \in staff : s1.username = s2.username => s1.id = s2.id
    /\ CreateLostToTakenUsername =>
          resp.status = 409 /\ resp.error = "Username already exists"

\* Both requests passed the lookup, one inserted, and the other was answered
\* 500 although its only obstacle is the taken username.
C11_Witness ==
    /\ CreateLostToTakenUsername
    /\ resp.status = 500
    /\ \A r \in Reqs : pend[r].pc = "idle"
    /\ Cardinality({s \in staff : s.username = resp.req.username}) = 1

\* The step runs the checks of CreateStaffHandler on req with the store up:
\* it answers the request or hands it on to the insert.
ChecksCreateRequest(req) ==
    \/ resp'.op = "create" /\ ~resp'.dbDown /\ pend' = pend /\ resp'.req = req
    \/ \E r \in Reqs :
          pend[r].pc = "idle" /\ pend'[r].pc = "insert" /\ pend'[r].req = req

\* C12: a creation request with a bound body for a username that exists
\* when the request is checked is answered 409 'Username already exists'
\* whatever its password and hospital, and the staff table stays as it was.
C12_DuplicateRejectedStoreUnchanged ==
    [][\A req \in StaffRequests \cup UnboundRequests :
          (/\ ShouldBindJSON("StaffCreateRequest", req) = "nil"
           /\ ChecksCreateRequest(req)
           /\ \E s \in staff : s.username = req.username) =>
              /\ resp'.op = "create" /\ resp'.req = req
              /\ resp'.status = 409 /\ resp'.error = "Username already exists"
              /\ resp'.staff = NoStaff
              /\ pend' = pend
              /\ staff' = staff]_vars

\* A request for an existing username with an unresolvable hospital and
\* another password was answered 409.
C12_Witness ==
    /\ resp.op = "create" /\ resp.status = 409
    /\ GetHospitalIDByName(resp.req.hospital).err # "nil"
    /\ \E s \in staff :
          /\ s.username = resp.req.username
          /\ s.password_hash # HashPassword(resp.req.password).hash

\* The row a creation request for username and Hospital A would insert.
ValidRow(username) ==
    [id |-> 0, username |-> username, password_hash |-> HashPassword("pw123").hash,
     hospital_id |-> 1, hospital_name |-> "Hospital A"]

\* C13: a creation request with a bound body, an unused username and an
\* unresolvable hospital is answered 400 and persists nothing: no row has the
\* username, nothing is left to insert, and an insert of the username with a
\* valid hospital is accepted.
C13_InvalidTenantPersistsNothing ==
    [][\A req \in StaffRequests \cup UnboundRequests :
          (/\ ShouldBindJSON("StaffCreateRequest", req) = "nil"
           /\ ChecksCreateRequest(req)
           /\ ~\E s \in staff : s.username = req.username
           /\ GetHospitalIDByName(req.hospital).err # "nil") =>
              /\ resp'.op = "create" /\ resp'.req = req
              /\ resp'.status = 400
              /\ resp'.error = InvalidHospitalSpecified(HospitalNotFound(req.hospital))
              /\ pend' = pend
              /\ staff' = staff
              /\ ~\E s \in staff' : s.username = req.username
              /\ CreateStaff(staff', ValidRow(req.username), nextStaffID').err = "nil"
       ]_vars

\* A request with an unresolvable hospital was answered 400 while another
\* username is in the table.
C13_Witness ==
    /\ resp.op = "create" /\ resp.status = 400
    /\ ShouldBindJSON("StaffCreateRequest", resp.req) = "nil"
    /\ GetHospitalIDByName(resp.req.hospital).err # "nil"
    /\ resp.error = InvalidHospitalSpecified(HospitalNotFound(resp.req.hospital))
    /\ staff # {}
    /\ ~\E s \in staff : s.username = resp.req.username
    /\ \A r \in Reqs : pend[r].pc = "idle"

(***************************************************************************)
(* Properties of the patient search.                                       *)
(***************************************************************************)
\* C1: every record SearchPatients returns for tenant T has hospital_id T.
C1_ResultsOfTenantOnly ==
    resp.op = "query" => \A r \in resp.patients : r.hospital_id = resp.tenant

\* Both names of a pair are supplied, the English one matches a record of
\* another tenant, and the search returns records of its own tenant only.
C1_Witness ==
    /\ resp.op = "query" /\ resp.error = "nil"
    /\ Supplied(resp.query.first_name_th) /\ Supplied(resp.query.first_name_en)
    /\ \E r \in patients :
          /\ r.hospital_id # resp.tenant
          /\ Like(r.first_name_en, Contains(resp.query.first_name_en[1]))
          /\ ~Like(r.first_name_th, Contains(resp.query.first_name_th[1]))
    /\ resp.patients # {}

\* value occurs in str as a run of consecutive characters.
IsSubstring(value, str) ==
    \E i \in 0..(Len(str) - Len(value)) : SubSeq(str, i + 1, i + Len(value)) = value

\* The names of the columns of the three name components, Thai then English.
NameComponents ==
    {<<"first_name_th", "first_name_en">>, <<"middle_name_th", "middle_name_en">>,
     <<"last_name_th", "last_name_en">>}

\* Record r satisfies name component c of the criteria: either supplied
\* value is contained in its field.
NamePairHolds(r, query, c) ==
    IF Supplied(query[c[1]]) /\ Supplied(query[c[2]])
    THEN IsSubstring(query[c[1]][1], r[c[1]]) \/ IsSubstring(query[c[2]][1], r[c[2]])
    ELSE IF Supplied(query[c[1]]) THEN IsSubstring(query[c[1]][1], r[c[1]])
    ELSE IF Supplied(query[c[2]]) THEN IsSubstring(query[c[2]][1], r[c[2]])
    ELSE TRUE

\* The criteria supply name component c and nothing else.
OnlyComponent(query, c) ==
    /\ Supplied(query[c[1]]) \/ Supplied(query[c[2]])
    /\ \A f \in CriteriaFields \ {c[1], c[2]} : ~Supplied(query[f])

\* C18: a search that supplies one name component only returns the records
\* of the tenant whose Thai field contains the Thai value or whose English
\* field contains the English value when both are supplied, and those whose
\* one field contains the one supplied value otherwise.
C18_NamePairContains ==
    \A c \in NameComponents :
        (resp.op = "query" /\ resp.error = "nil" /\ OnlyComponent(resp.query, c)) =>
            resp.patients =
                {r \in patients : r.hospital_id = resp.tenant /\ NamePairHolds(r, resp.query, c)}

\* A search for the Thai given name "_" returned a record whose Thai given
\* name has no "_" in it.
C18_Witness ==
    /\ resp.op = "query" /\ resp.error = "nil"
    /\ OnlyComponent(resp.query, <<"first_name_th", "first_name_en">>)
    /\ resp.query.first_name_th = <<<<"_">>>> /\ ~Supplied(resp.query.first_name_en)
    /\ \E r \in resp.patients : ~IsSubstring(<<"_">>, r.first_name_th)

\* The calendar date of a supplied date_of_birth that parses.
DateHolds(r, query) ==
    (Supplied(query.date_of_birth) /\ query.date_of_birth[1][1] \in ValidDates) =>
        r.date_of_birth # <<>> /\ r.date_of_birth[1] = query.date_of_birth[1][1]

\* Record r satisfies every supplied criterion group.
EveryGroupHolds(r, query) ==
    /\ \A f \in {"national_id", "passport_id", "phone_number", "email"} :
          Supplied(query[f]) => r[f] = query[f][1]
    /\ DateHolds(r, query)
    /\ \A c \in NameComponents : NamePairHolds(r, query, c)

\* C19: SearchPatients returns exactly the records of the tenant that
\* satisfy every supplied criterion group, a bilingual pair being one group.
C19_ExactlyTheMatchingRecords ==
    (resp.op = "query" /\ resp.error = "nil") =>
        resp.patients =
            {r \in patients : r.hospital_id = resp.tenant /\ EveryGroupHolds(r, resp.query)}

\* A search with an identifier and a name returned a record that fails the
\* name group.
C19_Witness ==
    /\ resp.op = "query" /\ resp.error = "nil"
    /\ Supplied(resp.query.national_id)
    /\ \E r \in resp.patients : ~EveryGroupHolds(r, resp.query)

\* C20: a search without criteria returns every record of the tenant and
\* nothing else.
C20_NoCriteriaReturnsTenant ==
    (resp.op = "query" /\ resp.error = "nil" /\ resp.query = NoCriteria) =>
        resp.patients = {r \in patients : r.hospital_id = resp.tenant}

\* A search without criteria on a table with records of two tenants
\* returned the two records of tenant 2.
C20_Witness ==
    /\ resp.op = "query" /\ resp.query = NoCriteria /\ resp.tenant = 2
    /\ \E r \in patients : r.hospital_id = 1
    /\ Cardinality(resp.patients) = 2

\* The last search supplied a date_of_birth that is no YYYY-MM-DD date.
MalformedDate ==
    /\ resp.op = "query"
    /\ resp.query.date_of_birth # <<>>
    /\ resp.query.date_of_birth[1] # <<>>
    /\ resp.query.date_of_birth[1][1] \notin ValidDates

\* C21: a search with a malformed date_of_birth returns what the same search
\* without date_of_birth returns, and no error while the store answers.
C21_MalformedDateIgnored ==
    MalformedDate =>
        LET without == SearchPatients([resp.query EXCEPT !.date_of_birth = <<>>],
                                      resp.tenant, patients, resp.dbDown)
        IN  /\ resp.patients = without.patients
            /\ resp.error = without.err
            /\ ~resp.dbDown => resp.error = "nil"

\* A search with a malformed date and an identifier returned the record of
\* the tenant with that identifier and not the tenant's other record.
C21_Witness ==
    /\ MalformedDate /\ resp.error = "nil"
    /\ resp.query.passport_id # <<>> /\ resp.query.passport_id[1] # <<>>
    /\ resp.patients # {}
    /\ \E r \in patients : r.hospital_id = resp.tenant /\ r \notin resp.patients

\* The criteria with every empty string taken out.
WithoutEmptyStrings(query) ==
    [f \in DOMAIN query |-> IF query[f] = <<<<>>>> THEN <<>> ELSE query[f]]

\* C30: a search returns what the search with its empty-string fields absent
\* returns.
C30_EmptyStringIsAbsent ==
    resp.op = "query" =>
        LET absent == SearchPatients(WithoutEmptyStrings(resp.query), resp.tenant,
                                     patients, resp.dbDown)
        IN  resp.patients = absent.patients /\ resp.error = absent.err

\* A name pair with an empty Thai value and an English value that some but
\* not all records of the tenant contain.
C30_Witness ==
    /\ resp.op = "query" /\ resp.error = "nil"
    /\ resp.query.first_name_th = <<<<>>>>
    /\ resp.query.first_name_en # <<>> /\ resp.query.first_name_en[1] # <<>>
    /\ resp.patients # {}
    /\ \E r \in patients : r.hospital_id = resp.tenant /\ r \notin resp.patients

\* The token of a header that got past the gate.
BearerToken(header) == header.rest[1]

\* C4: the tenant handed to SearchPatients is the hospital_id claim of the
\* request's validated token, and a request with the same header and the same
\* criteria as the last one gets the same answer whatever hospital_id
\* parameter it carries.
C4_TenantFromTokenOnly ==
    /\ (resp.op = "search" /\ resp.queried) =>
          /\ ValidateToken(BearerToken(resp.header), now, jwtKey).err = "nil"
          /\ resp.tenant = BearerToken(resp.header).hospital_id
    /\ resp.op = "search" =>
          \A p2 \in RouteParams :
              BindQuery(p2) = BindQuery(resp.params) =>
                  LET r2 == PatientSearchRoute(resp.header, p2, now, jwtKey, patients,
                                               resp.dbDown)
                  IN  /\ r2.status = resp.status
                      /\ r2.error = resp.error
                      /\ r2.body = resp.body

\* A staff member of hospital 1 asked for hospital_id=2 and got records of
\* hospital 1.
C4_Witness ==
    /\ resp.op = "search" /\ resp.status = 200
    /\ resp.params["hospital_id"] = <<"2">>
    /\ resp.tenant = 1
    /\ resp.body # {}

\* The gate has to reject the header: it is missing or malformed, or its
\* token does not validate now.
GateRejects(header) ==
    \/ header = NoHeader
    \/ Len(header.rest) # 1
    \/ header.scheme \notin {"Bearer", "BEARER", "bearer"}
    \/ ValidateToken(header.rest[1], now, jwtKey).err # "nil"

\* C5: a search request whose token the gate did not accept is answered 401
\* and reaches neither SearchPatientHandler nor the patient store.
C5_NoSearchWithoutValidToken ==
    resp.op = "search" =>
        /\ GateRejects(resp.header) =>
              resp.status = 401 /\ ~resp.handler /\ ~resp.queried /\ resp.body = {}
        /\ (resp.handler \/ resp.queried) => ~GateRejects(resp.header)

\* A request with an expired token of the service was answered 401.
C5_Witness ==
    /\ resp.op = "search"
    /\ Len(resp.header.rest) = 1
    /\ BearerToken(resp.header) \in IssuedTokens
    /\ resp.error = "token is expired"
    /\ resp.status = 401 /\ ~resp.handler

\* The records of the authenticated tenant that satisfy the criteria of the
\* last search request.
MatchingRecords ==
    {r \in patients : /\ r.hospital_id = resp.tenant
                      /\ CriteriaHold(r, BindQuery(resp.params))}

\* C26: an authorized search that matches no record is answered 200 with an
\* empty list and no error.
C26_NoMatchIsEmptySuccess ==
    (/\ resp.op = "search" /\ resp.handler /\ ~resp.dbDown
     /\ MatchingRecords = {})
        => resp.status = 200 /\ resp.body = {} /\ resp.error = "nil"

\* A search by an identifier that no record of the caller's tenant has but a
\* record of another tenant has.
C26_Witness ==
    /\ resp.op = "search" /\ resp.handler /\ ~resp.dbDown
    /\ resp.params.passport_id # <<>>
    /\ MatchingRecords = {}
    /\ \E r \in patients : CriteriaHold(r, BindQuery(resp.params))
    /\ resp.status = 200 /\ resp.body = {}

(***************************************************************************)
(* Frame properties of the whole service.                                  *)
(***************************************************************************)
\* A login with these inputs succeeds in the current state.
CanLogin(req) == AuthenticateStaff(req, FALSE, now, jwtKey, jwtExpiry).err = "nil"

\* A step keeps every staff and patient record as it is; only a staff
\* creation answered 201 adds a record, and it adds exactly one.
RecordsKept ==
    /\ staff \subseteq staff'
    /\ patients' = patients
    /\ IF resp'.op = "create" /\ resp'.status = 201
       THEN /\ Cardinality(staff' \ staff) = 1
            /\ \A s \in staff' \ staff : s.username = resp'.req.username
       ELSE staff' = staff

\* C27: no step modifies or deletes a staff or patient record: a successful
\* staff creation adds exactly one staff record, and login, token validation
\* and patient search leave both tables unchanged; so a login that succeeded
\* succeeds again with the same inputs after any further steps.
C27_RecordsNeverModified ==
    /\ [][RecordsKept]_vars
    /\ [][\A req \in StaffRequests : CanLogin(req) => CanLogin(req)']_vars
    /\ [](resp.op = "login" /\ resp.status = 200 => CanLogin(resp.req))

\* A search answered after a login succeeded and a second staff member was
\* created, with the first login still succeeding.
C27_Witness ==
    /\ Cardinality(staff) = 2
    /\ issued # {}
    /\ \E i \in issued :
          \E req \in StaffRequests : req.username = i.token.username /\ CanLogin(req)
    /\ resp.op = "search" /\ resp.status = 200 /\ resp.body # {}
    /\ now > 0

(***************************************************************************)
(* Properties of the tenant resolver.                                      *)
(***************************************************************************)
\* The tenant a hospital string stands for by exact comparison with the
\* configured names; 0 when it stands for none.
TenantOfName(hospitalName) ==
    IF hospitalName = "Hospital A" THEN 1
    ELSE IF hospitalName = "Hospital B" THEN 2
    ELSE 0

\* C24: the resolver answers 'Hospital A' with tenant 1, 'Hospital B' with
\* tenant 2 and every other string with an error, never a tenant together
\* with an error; a staff row carries the tenant of the name it was created
\* with.
C24_ResolverExactMatch ==
    /\ resp.op = "resolve" =>
          /\ resp.id = TenantOfName(resp.name)
          /\ resp.error = "nil" <=> TenantOfName(resp.name) # 0
          /\ resp.error # "nil" => resp.id = 0
    /\ \A s \in staff : /\ s.hospital_id # 0
                        /\ s.hospital_id = TenantOfName(s.hospital_name)
    /\ (resp.op = "create" /\ TenantOfName(resp.req.hospital) = 0)
          => resp.status \in {400, 409}

\* A configured name in another letter case or with a space added was
\* answered with an error and no tenant.
C24_Witness ==
    /\ resp.op = "resolve"
    /\ resp.name \in {"hospital a", "HOSPITAL B", "Hospital A ", " Hospital B"}
    /\ resp.error # "nil" /\ resp.id = 0

\* The hospital string is the identifier of a configured tenant.
TenantIdentifiers == {"1", "2"}

TenantOfIdentifier(hospital) ==
    IF hospital = "1" THEN 1 ELSE IF hospital = "2" THEN 2 ELSE 0

\* C25: the identifier of a configured tenant resolves to that tenant: the
\* resolver answers it with the tenant, and a staff creation that supplies it
\* is not refused for its hospital.
C25_IdentifierResolves ==
    /\ (resp.op = "resolve" /\ resp.name \in TenantIdentifiers)
          => resp.error = "nil" /\ resp.id = TenantOfIdentifier(resp.name)
    /\ (resp.op = "create" /\ resp.req.hospital \in TenantIdentifiers)
          => resp.status # 400

\* A staff creation with a free username and the identifier of tenant 1 as
\* its hospital was refused.
C25_Witness ==
    /\ resp.op = "create" /\ resp.req.hospital = "1"
    /\ resp.status = 400
    /\ resp.error = "Invalid hospital specified: hospital not found: 1"
    /\ ~\E s \in staff : s.username = resp.req.username

(***************************************************************************)
(* Properties of the patient table.                                        *)
(***************************************************************************)
\* The last insert was refused.
InsertRejected == resp.op = "createPatient" /\ resp.error # "nil"

\* C23: no two records have the same tenant and record number, and an insert
\* is refused only when the table already holds a record of the same tenant
\* with the same record number.
C23_RecordNumberUniquePerTenant ==
    /\ \A r1, r2 \in patients :
          (r1.hospital_id = r2.hospital_id /\ r1.patient_hn = r2.patient_hn)
              => r1 = r2
    /\ InsertRejected =>
          \E r \in resp.before : /\ r.hospital_id = resp.patient.hospital_id
                                  /\ r.patient_hn = resp.patient.patient_hn

\* An insert refused although only another tenant holds the record number.
C23_Witness ==
    /\ InsertRejected
    /\ \E r \in resp.before : /\ r.patient_hn = resp.patient.patient_hn
                              /\ r.hospital_id # resp.patient.hospital_id
    /\ \A r \in resp.before : r.patient_hn = resp.patient.patient_hn
                                  => r.hospital_id # resp.patient.hospital_id
    /\ patients = resp.before

====
